---- MODULE Spec2Model ----
(***************************************************************************)
(* The S-expression reader of clojure/lang/lispreader.py as a state        *)
(* machine.  A StringReader over the text is read form by form; the thread *)
(* binding frames (ARG_ENV, GENSYM_ENV) and the id counter of RT.nextID    *)
(* live across the calls.  The reader functions are operators that thread  *)
(* a reader record r = [text, pos, frames, id, comp, trace] and return an  *)
(* outcome [ok, kind, msg, val, r]: a returned value or a raised error.    *)
(***************************************************************************)
EXTENDS Integers, Sequences, FiniteSets, TLC

VARIABLES
    text,             \* the characters of the StringReader
    pos,              \* index of the character the stream is at, 0 before the first
    frames,           \* the thread's binding frames, oldest first
    nextID,           \* the counter behind RT.nextID()
    currentCompiler,  \* "user": a compiler in namespace user; "nons"; "none"
    result,           \* the outcome of the last top-level read
    trace,            \* what the read calls so far did, for the properties
    expect,           \* the forms the text was put together from (start, end)
    lastOp            \* the last call made on the stream: "none", "next" or "back"

vars == <<text, pos, frames, nextID, currentCompiler, result, trace, expect, lastOp>>

(***************************************************************************)
(* Characters and character classes                                        *)
(***************************************************************************)
\* the backquote character: a TLA+ string cannot hold it, so it has a name
BACKQUOTE == "BACKQUOTE"

WHITESPACE == {",", "\n", "\t", "\r", " "}

MacroChars == {"\"", "'", "(", ")", "[", "]", "{", "}", ";", "#", "^", "%",
               BACKQUOTE, "~", "\\"}

DispatchChars == {"\"", "{", "!", "_", "(", "'", "^"}

DecDigits == {"0", "1", "2", "3", "4", "5", "6", "7", "8", "9"}

DIGITS == <<"0", "1", "2", "3", "4", "5", "6", "7", "8", "9",
            "a", "b", "c", "d", "e", "f", "g", "h", "i", "j", "k", "l", "m",
            "n", "o", "p", "q", "r", "s", "t", "u", "v", "w", "x", "y", "z">>

UPPER == <<"0", "1", "2", "3", "4", "5", "6", "7", "8", "9",
           "A", "B", "C", "D", "E", "F", "G", "H", "I", "J", "K", "L", "M",
           "N", "O", "P", "Q", "R", "S", "T", "U", "V", "W", "X", "Y", "Z">>

isWhitespace(c) == c \in WHITESPACE

isMacro(c) == c \in MacroChars

isTerminatingMacro(ch) == ch # "#" /\ ch # "'" /\ isMacro(ch)

\* `d in DIGITS and DIGITS.index(d) < 10`: DIGITS is a str, so the empty
\* string (the end-of-stream sentinel) is "in" it, at index 0.
isDigit(d) == d = "" \/ d \in DecDigits

\* value of a digit character as int(s, base) reads it, -1 when it is none
DigitVal(c) ==
    IF \E i \in 1..Len(DIGITS) : DIGITS[i] = c
    THEN (CHOOSE i \in 1..Len(DIGITS) : DIGITS[i] = c) - 1
    ELSE IF \E i \in 1..Len(UPPER) : UPPER[i] = c
    THEN (CHOOSE i \in 1..Len(UPPER) : UPPER[i] = c) - 1
    ELSE -1

Drop(s, n) == SubSeq(s, n + 1, Len(s))

AllIn(s, S) == \A i \in 1..Len(s) : s[i] \in S

endswith(s, suf) ==
    Len(s) >= Len(suf) /\ SubSeq(s, Len(s) - Len(suf) + 1, Len(s)) = suf

contains(s, sub) ==
    \E i \in 1..(Len(s) - Len(sub) + 1) : SubSeq(s, i, i + Len(sub) - 1) = sub

\* length of the longest prefix of s made of characters of S
PrefixLen(s, S) ==
    IF AllIn(s, S) THEN Len(s)
    ELSE (CHOOSE i \in 1..Len(s) : s[i] \notin S /\ AllIn(SubSeq(s, 1, i - 1), S)) - 1

\* length of the longest prefix of s that holds no character c
UntilLen(s, c) ==
    IF \A i \in 1..Len(s) : s[i] # c THEN Len(s)
    ELSE (CHOOSE i \in 1..Len(s) : s[i] = c /\ \A j \in 1..(i - 1) : s[j] # c) - 1

RECURSIVE ParseInt(_, _)
ParseInt(ds, base) ==
    IF ds = <<>> THEN 0
    ELSE ParseInt(SubSeq(ds, 1, Len(ds) - 1), base) * base + DigitVal(ds[Len(ds)])

RECURSIVE str(_)
str(n) ==
    IF n < 0 THEN <<"-">> \o str(0 - n)
    ELSE IF n < 10 THEN <<DIGITS[n + 1]>>
    ELSE str(n \div 10) \o <<DIGITS[(n % 10) + 1]>>

RECURSIVE GCD(_, _)
GCD(a, b) == IF b = 0 THEN a ELSE GCD(b, a % b)

(***************************************************************************)
(* Forms.  One record shape for every form: k is the variant, ns/name the  *)
(* text of a symbol, keyword, string or float literal, n/d an integer or a *)
(* ratio, items the elements of a collection (a map holds k1 v1 k2 v2 ..), *)
(* meta is <<>> (no metadata) or <<m>> with m a map form.  The field open  *)
(* is the index in the text of the "(" a list was read from (0 for forms   *)
(* the reader builds itself); it is bookkeeping of the model.              *)
(***************************************************************************)
Blank == [k |-> "nil", ns |-> <<>>, name |-> <<>>, n |-> 0, d |-> 1,
          items |-> <<>>, meta |-> <<>>, open |-> 0]

None == Blank

\* the stream itself, returned by readers that produce no form
RDR == [Blank EXCEPT !.k = "rdr"]

True == [Blank EXCEPT !.k = "bool", !.n = 1]

False == [Blank EXCEPT !.k = "bool", !.n = 0]

Integer(n) == [Blank EXCEPT !.k = "int", !.n = n]

Float(s) == [Blank EXCEPT !.k = "float", !.name = s]

Fraction(n, d) ==
    LET g == GCD(IF n < 0 THEN 0 - n ELSE n, d)
    IN  [Blank EXCEPT !.k = "ratio", !.n = n \div g, !.d = d \div g]

Str(s) == [Blank EXCEPT !.k = "str", !.name = s]

Regex(s) == [Blank EXCEPT !.k = "regex", !.name = s]

Character(c) == [Blank EXCEPT !.k = "char", !.name = c]

symbol(ns, name) == [Blank EXCEPT !.k = "sym", !.ns = ns, !.name = name]

keyword(s) == [Blank EXCEPT !.k = "kw", !.name = s]

RTlist(items) == [Blank EXCEPT !.k = "list", !.items = items]

RTvector(items) == [Blank EXCEPT !.k = "vec", !.items = items]

withMeta(o, m) == [o EXCEPT !.meta = <<m>>]

hasWithMeta(o) == o.k \in {"sym", "list", "vec", "map", "set"}

CLOJURE_CORE == <<"c", "l", "o", "j", "u", "r", "e", ".", "c", "o", "r", "e">>

_AMP_ == symbol(<<>>, <<"&">>)
_FN_ == symbol(<<>>, <<"f", "n">>)
_VAR_ == symbol(<<>>, <<"v", "a", "r">>)
_APPLY_ == symbol(<<>>, <<"a", "p", "p", "l", "y">>)
_HASHMAP_ == symbol(CLOJURE_CORE, <<"h", "a", "s", "h", "m", "a", "p">>)
_CONCAT_ == symbol(CLOJURE_CORE, <<"c", "o", "n", "c", "a", "t">>)
_LIST_ == symbol(CLOJURE_CORE, <<"l", "i", "s", "t">>)
_SEQ_ == symbol(CLOJURE_CORE, <<"s", "e", "q">>)
_VECTOR_ == symbol(CLOJURE_CORE, <<"v", "e", "c", "t", "o", "r">>)
_QUOTE_ == symbol(<<>>, <<"q", "u", "o", "t", "e">>)
_UNQUOTE_ == symbol(<<>>, <<"~">>)
_UNQUOTE_SPLICING_ == symbol(<<>>, <<"~", "@">>)

LINE_KEY == keyword(<<"l", "i", "n", "e">>)
TAG_KEY == keyword(<<"t", "a", "g">>)

(***************************************************************************)
(* Persistent maps: a sequence of entries, one per key, in insertion order *)
(***************************************************************************)
EMPTY_MAP == <<>>

hasKey(m, key) == \E i \in 1..Len(m) : m[i].key = key

\* m[key]: the value, or None (the absent value) when the key is missing
mapGet(m, key) ==
    IF hasKey(m, key) THEN m[CHOOSE i \in 1..Len(m) : m[i].key = key].val
    ELSE None

assoc(m, key, val) ==
    IF hasKey(m, key)
    THEN [i \in 1..Len(m) |-> IF m[i].key = key THEN [key |-> key, val |-> val] ELSE m[i]]
    ELSE Append(m, [key |-> key, val |-> val])

RECURSIVE assocAll(_, _)
assocAll(m, kvs) ==
    IF Len(kvs) < 2 THEN m
    ELSE assocAll(assoc(m, kvs[1], kvs[2]), Drop(kvs, 2))

RECURSIVE flatEntries(_)
flatEntries(m) ==
    IF m = <<>> THEN <<>> ELSE <<m[1].key, m[1].val>> \o flatEntries(Tail(m))

\* RT.map(k1, v1, ...) as a map form
RTmap(kvs) == [Blank EXCEPT !.k = "map", !.items = flatEntries(assocAll(EMPTY_MAP, kvs))]

(***************************************************************************)
(* Outcomes of a reader function                                           *)
(***************************************************************************)
Ret(r, v) == [ok |-> TRUE, kind |-> "", msg |-> "", val |-> v, r |-> r]

Raise(r, kind, msg) == [ok |-> FALSE, kind |-> kind, msg |-> msg, val |-> None, r |-> r]

(***************************************************************************)
(* The character stream                                                    *)
(***************************************************************************)
first(r) == IF r.pos >= 1 /\ r.pos <= Len(r.text) THEN r.text[r.pos] ELSE ""

\* read1 advances the stream with next(); the character it returns is first()
\* of the result
read1(r) == [r EXCEPT !.pos = @ + 1, !.lastOp = "next"]

\* back() steps the stream one character back; the trace keeps the call that
\* was made on the stream just before it
back(r) ==
    [r EXCEPT !.pos = @ - 1, !.lastOp = "back",
              !.trace = Append(@, [ev |-> "back", name |-> r.lastOp, n |-> r.pos,
                                   x |-> <<>>, y |-> <<>>, env |-> <<>>])]

lineCol(r) ==
    1 + Cardinality({i \in 1..Len(r.text) : i < r.pos /\ r.text[i] = "\n"})

(***************************************************************************)
(* Thread bindings (pushThreadBindings, popThreadBindings, Var.deref, set) *)
(***************************************************************************)
NoBinding == [bound |-> FALSE, m |-> EMPTY_MAP]

isBound(fr, v) == \E i \in 1..Len(fr) : fr[i].var = v

topOf(fr, v) == CHOOSE i \in 1..Len(fr) : fr[i].var = v /\ \A j \in (i + 1)..Len(fr) : fr[j].var # v

deref(fr, v) ==
    IF isBound(fr, v) THEN [bound |-> TRUE, m |-> fr[topOf(fr, v)].val] ELSE NoBinding

\* one observed step of a read call, kept in r.trace for the properties
Ev(ev, name, n, x, y, env) ==
    [ev |-> ev, name |-> name, n |-> n, x |-> x, y |-> y, env |-> env]

observe(r, e) == [r EXCEPT !.trace = Append(@, e)]

\* the "push" event records the height of the frame stack after the push
pushThreadBindings(r, v, val) ==
    observe([r EXCEPT !.frames = Append(@, [var |-> v, val |-> val])],
            Ev("push", v, Len(r.frames) + 1, <<>>, <<>>, <<>>))

popThreadBindings(r) ==
    observe([r EXCEPT !.frames = SubSeq(@, 1, Len(@) - 1)],
            Ev("pop", r.frames[Len(r.frames)].var, Len(r.frames), <<>>, <<>>, <<>>))

varSet(r, v, val) == [r EXCEPT !.frames[topOf(r.frames, v)].val = val]

\* RT.nextID(): the reader record after the call; the id is its .id
nextIDr(r) == [r EXCEPT !.id = @ + 1]

(***************************************************************************)
(* Numbers                                                                 *)
(***************************************************************************)
\* the digits of an exponent part
expDigits(y) == Len(y) >= 1 /\ AllIn(y, DecDigits)

isExponent(x) ==
    /\ Len(x) >= 2
    /\ x[1] \in {"e", "E"}
    /\ expDigits(IF x[2] \in {"+", "-"} THEN Drop(x, 2) ELSE Drop(x, 1))

\* what may follow the fraction digits of a float
floatEnd(g) == g = <<>> \/ isExponent(g)

\* what may follow the integer digits of a float
floatRest(rest) ==
    \/ /\ rest # <<>>
       /\ rest[1] = "."
       /\ floatEnd(Drop(rest, 1 + PrefixLen(Drop(rest, 1), DecDigits)))
    \/ isExponent(rest)

\* floatPat on the token after its optional sign
floatPat(b) == PrefixLen(b, DecDigits) >= 1 /\ floatRest(Drop(b, PrefixLen(b, DecDigits)))

ratioPart(x) == x = <<"0">> \/ (Len(x) >= 1 /\ AllIn(x, DecDigits \ {"0"}))

\* ratioPat on the token after its optional sign
ratioPat(b) ==
    \E i \in 1..Len(b) :
        b[i] = "/" /\ ratioPart(SubSeq(b, 1, i - 1)) /\ ratioPart(Drop(b, i))

AlNum == {DIGITS[i] : i \in 1..Len(DIGITS)} \cup {UPPER[i] : i \in 1..Len(UPPER)}

HexDigits == DecDigits \cup {"a", "b", "c", "d", "e", "f", "A", "B", "C", "D", "E", "F"}

\* position of the r/R of a radix literal <base>r<value>, 0 when b is none
radixAt(b) ==
    IF Len(b) >= 3 /\ b[1] \in DecDigits \ {"0"} /\ b[2] \in {"r", "R"}
          /\ AllIn(Drop(b, 2), AlNum)
    THEN 2
    ELSE IF Len(b) >= 4 /\ b[1] \in DecDigits \ {"0"} /\ b[2] \in DecDigits
          /\ b[3] \in {"r", "R"} /\ AllIn(Drop(b, 3), AlNum)
    THEN 3
    ELSE 0

hasSign(s) == Len(s) >= 1 /\ s[1] \in {"+", "-"}

signOf(s) == IF hasSign(s) /\ s[1] = "-" THEN 0 - 1 ELSE 1

unsigned(s) == IF hasSign(s) THEN Tail(s) ELSE s

\* int(sign + value, base) of a radix literal
matchRadix(sgn, base, value) ==
    IF base < 2 \/ base > 36 \/ \E i \in 1..Len(value) : DigitVal(value[i]) >= base
    THEN [t |-> "raise", val |-> None, msg |-> "ValueError"]
    ELSE [t |-> "val", val |-> Integer(sgn * ParseInt(value, base)), msg |-> ""]

\* fractions.Fraction of numerator / denominator
matchRatio(sgn, num, den) ==
    IF ParseInt(den, 10) = 0
    THEN [t |-> "raise", val |-> None, msg |-> "ZeroDivisionError"]
    ELSE [t |-> "val", val |-> Fraction(sgn * ParseInt(num, 10), ParseInt(den, 10)),
          msg |-> ""]

slashAt(b) == CHOOSE i \in 1..Len(b) : b[i] = "/"

\* matchNumber on the token s with sign sgn and unsigned part b
matchUnsigned(s, sgn, b) ==
    IF radixAt(b) > 0
    THEN matchRadix(sgn, ParseInt(SubSeq(b, 1, radixAt(b) - 1), 10), Drop(b, radixAt(b)))
    ELSE IF b = <<"0">> \/ (Len(b) >= 1 /\ b[1] \in DecDigits \ {"0"} /\ AllIn(b, DecDigits))
    THEN [t |-> "val", val |-> Integer(sgn * ParseInt(b, 10)), msg |-> ""]
    ELSE IF Len(b) >= 2 /\ b[1] = "0" /\ AllIn(Tail(b), {"0", "1", "2", "3", "4", "5", "6", "7"})
    THEN [t |-> "val", val |-> Integer(sgn * ParseInt(Tail(b), 8)), msg |-> ""]
    ELSE IF Len(b) >= 3 /\ b[1] = "0" /\ b[2] \in {"x", "X"} /\ AllIn(Drop(b, 2), HexDigits)
    THEN [t |-> "val", val |-> Integer(sgn * ParseInt(Drop(b, 2), 16)), msg |-> ""]
    ELSE IF floatPat(b)
    THEN [t |-> "val", val |-> Float(s), msg |-> ""]
    ELSE IF ratioPat(b)
    THEN matchRatio(sgn, SubSeq(b, 1, slashAt(b) - 1), Drop(b, slashAt(b)))
    ELSE [t |-> "none", val |-> None, msg |-> ""]

\* [t |-> "val", val] a number, [t |-> "none"] no match, [t |-> "raise"] an
\* exception of int() or Fraction()
matchNumber(s) == matchUnsigned(s, signOf(s), unsigned(s))

RECURSIVE readNumberLoop(_, _)
readNumberLoop(r, sb) ==
    LET r1 == read1(r)
        ch == first(r1)
    IN  IF ch = "" \/ isWhitespace(ch) \/ isMacro(ch)
        THEN [r |-> back(r1), s |-> sb]
        ELSE readNumberLoop(r1, Append(sb, ch))

\* the end of readNumber: n is what matchNumber made of the token
numberOrRaise(r, n) ==
    IF n.t = "raise" THEN Raise(r, "ReaderException", n.msg)
    ELSE IF n.t = "none" THEN Raise(r, "ReaderException", "Invalid number")
    ELSE Ret(r, n.val)

\* l is the stream and the token after the loop
readNumberToken(l) == numberOrRaise(l.r, matchNumber(l.s))

readNumber(r, initch) == readNumberToken(readNumberLoop(r, <<initch>>))

(***************************************************************************)
(* Tokens and symbols                                                      *)
(***************************************************************************)
RECURSIVE readTokenLoop(_, _)
readTokenLoop(r, sb) ==
    LET r1 == read1(r)
        ch == first(r1)
    IN  IF ch = "" \/ isWhitespace(ch) \/ isTerminatingMacro(ch)
        THEN [r |-> back(r1), s |-> sb]
        ELSE readTokenLoop(r1, Append(sb, ch))

\* the token is .s of the result, the stream after it .r
readToken(r, initch) == readTokenLoop(r, <<initch>>)

\* "[\D^/]" at index i of s
NonDigit(s, i) == i >= 1 /\ i <= Len(s) /\ s[i] \notin DecDigits

\* the slashes that can end the namespace group "([\D^/].*/)?" from offset p
nsSlashes(s, p) ==
    {j \in (p + 2)..Len(s) : NonDigit(s, p + 1) /\ s[j] = "/" /\ NonDigit(s, j + 1)}

\* the name group "([\D^/][^/]*)" from index i
nameFrom(s, i) == SubSeq(s, i, i + UntilLen(Drop(s, i), "/"))

\* the groups when the namespace group ends at slash j
withNs(s, p, j) == [m |-> TRUE, ns |-> SubSeq(s, p + 1, j), name |-> nameFrom(s, j + 1)]

NoMatch == [m |-> FALSE, ns |-> <<>>, name |-> <<>>]

\* the greedy ".*/" takes the last slash it can
symbolPatSlashes(s, p, slashes) ==
    IF slashes # {} THEN withNs(s, p, CHOOSE x \in slashes : \A y \in slashes : y <= x)
    ELSE IF NonDigit(s, p + 1) THEN [m |-> TRUE, ns |-> <<>>, name |-> nameFrom(s, p + 1)]
    ELSE NoMatch

\* symbolPat.match from offset p of s (p characters already taken by "[:]?")
symbolPatAt(s, p) == symbolPatSlashes(s, p, nsSlashes(s, p))

\* "[:]?" gives the colon back when the rest does not match after it
symbolPatBacktrack(s, withColon) == IF withColon.m THEN withColon ELSE symbolPatAt(s, 0)

symbolPatMatch(s) ==
    symbolPatBacktrack(s, IF Len(s) >= 1 /\ s[1] = ":" THEN symbolPatAt(s, 1) ELSE NoMatch)

\* the symbol or keyword of the groups ns and name
matchGroups(s, ns, name) ==
    IF (ns # <<>> /\ endswith(ns, <<":", "/">>))
       \/ endswith(name, <<":">>) \/ contains(s, <<":", ":">>)
    THEN [t |-> "none", val |-> None]
    ELSE IF s[1] = ":" THEN [t |-> "val", val |-> keyword(Tail(s))]
    ELSE [t |-> "val", val |-> symbol(SubSeq(ns, 1, Len(ns) - 1), name)]

matchSymbolOn(s, m) ==
    IF ~m.m THEN [t |-> "none", val |-> None]
    ELSE matchGroups(s, m.ns,
                     IF endswith(m.name, <<".">>) /\ m.name[1] # "."
                     THEN SubSeq(m.name, 1, Len(m.name) - 1) ELSE m.name)

\* [t |-> "val", val] or [t |-> "none"]
matchSymbol(s) == matchSymbolOn(s, symbolPatMatch(s))

NIL_TOKEN == <<"n", "i", "l">>
TRUE_TOKEN == <<"t", "r", "u", "e">>
FALSE_TOKEN == <<"f", "a", "l", "s", "e">>

\* the end of interpretToken: ret is what matchSymbol made of the token
symbolOrRaise(r, ret) ==
    IF ret.t = "none" THEN Raise(r, "ReaderException", "Unknown symbol")
    ELSE Ret(r, ret.val)

interpretToken(r, s) ==
    IF s = NIL_TOKEN THEN Ret(r, None)
    ELSE IF s = TRUE_TOKEN THEN Ret(r, True)
    ELSE IF s = FALSE_TOKEN THEN Ret(r, False)
    ELSE symbolOrRaise(r, matchSymbol(s))

(***************************************************************************)
(* The reader functions.  They call each other through read.               *)
(***************************************************************************)
RECURSIVE read(_, _), macros(_, _), dispatchMacros(_, _),
          readDelimitedListLoop(_, _, _), readDelimitedList(_, _),
          wrappingReader(_, _), dispatchReader(_, _), listReader(_, _),
          vectorReader(_, _), mapReader(_, _), setReader(_, _),
          discardReader(_, _), metaReader(_, _), varQuoteReader(_, _),
          unquoteReader(_, _), argReader(_, _), fnReader(_, _),
          SyntaxQuoteReader(_, _), syntaxQuote(_, _), sqExpandList(_, _, _)

RECURSIVE skipWhitespace(_)
skipWhitespace(r) ==
    IF isWhitespace(first(r)) THEN skipWhitespace(read1(r)) ELSE r

RECURSIVE commentLoop(_)
commentLoop(r) ==
    LET r1 == read1(r)
        chr == first(r1)
    IN  IF chr = "" \/ chr = "\n" \/ chr = "\r" THEN r1 ELSE commentLoop(r1)

commentReader(r, semicolon) == Ret(commentLoop(r), RDR)

unmatchedDelimiterReader(r, un) == Raise(r, "ReaderException", "Unmatched Delimiter")

RECURSIVE regexLoop(_, _)
regexLoop(r, s) ==
    LET r1 == read1(r)
        ch == first(r1)
        r2 == read1(r1)
        ch2 == first(r2)
    IN  IF ch = "" THEN Raise(r1, "ReaderException", "EOF while reading string")
        ELSE IF ch = "\\"
        THEN IF ch2 = "" THEN Raise(r2, "ReaderException", "EOF while reading regex")
             ELSE IF ch2 = "\"" THEN Ret(r2, Regex(s \o <<ch, ch2>>))
             ELSE regexLoop(r2, s \o <<ch, ch2>>)
        ELSE IF ch = "\"" THEN Ret(r1, Regex(Append(s, ch)))
        ELSE regexLoop(r1, Append(s, ch))

regexReader(r, doubleQuote) == regexLoop(r, <<>>)

\* `ret = m(rdr, ch); if ret is rdr: continue; return ret`
readMacro(ret, eofIsError) ==
    IF ret.ok /\ ret.val = RDR THEN read(ret.r, eofIsError) ELSE ret

\* t is the token read and the stream after it
interpretRead(t) == interpretToken(t.r, t.s)

\* a sign lookahead that steps back twice before the number lexer
readSigned_backTwice(r2, ch, ch2) ==
    IF isDigit(ch2) THEN readNumber(back(back(r2)), ch)
    ELSE interpretRead(readToken(back(r2), ch))

\* a token that begins with a sign; r2 has read the character ch2 after it
readSigned(r2, ch, ch2) ==
    IF isDigit(ch2) THEN readNumber(back(r2), ch)
    ELSE interpretRead(readToken(back(r2), ch))

\* one round of the `while True` of read; r1 has read the character ch
readChar(r1, ch, eofIsError) ==
    IF ch = ""
    THEN IF eofIsError THEN Raise(r1, "ReaderException", "EOF while reading")
         ELSE Ret(r1, None)
    ELSE IF isDigit(ch) THEN readNumber(r1, ch)
    ELSE IF isMacro(ch) THEN readMacro(macros(r1, ch), eofIsError)
    ELSE IF ch \in {"+", "-"} THEN readSigned(read1(r1), ch, first(read1(r1)))
    ELSE interpretRead(readToken(r1, ch))

\* r1 is the stream after the whitespace is skipped
readAt(r1, eofIsError) == readChar(r1, first(r1), eofIsError)

read(r, eofIsError) == readAt(skipWhitespace(read1(r)), eofIsError)

\* the form read is the second element of the list
wrapped(sym, o) == IF ~o.ok THEN o ELSE Ret(o.r, RTlist(<<sym, o.val>>))

wrappingReader(r, sym) == wrapped(sym, read(r, TRUE))

dispatchChar(r1, ch) ==
    IF ch = "" THEN Raise(r1, "ReaderException", "EOF while reading character")
    ELSE IF ch \notin DispatchChars
    THEN Raise(r1, "ReaderException", "No dispatch macro for")
    ELSE dispatchMacros(r1, ch)

dispatchReader(r, hash) == dispatchChar(read1(r), first(read1(r)))

\* `mret = macrofn(rdr, ch); if mret is not None and mret is not rdr: a.append(mret)`
delimitedMacro(delim, a, mret) ==
    IF ~mret.ok THEN mret
    ELSE IF mret.val # None /\ mret.val # RDR
    THEN readDelimitedListLoop(delim, mret.r, Append(a, mret.val))
    ELSE readDelimitedListLoop(delim, mret.r, a)

\* `o = read(rdr, True, None, isRecursive); a.append(o)`
delimitedForm(delim, a, o) ==
    IF ~o.ok THEN o ELSE readDelimitedListLoop(delim, o.r, Append(a, o.val))

\* one round of the `while True` of readDelimitedList; r1 has read ch
delimitedChar(delim, r1, ch, a) ==
    IF ch = ""
    THEN Raise(r1, "ReaderException", "EOF while reading starting at line")
    ELSE IF ch = delim THEN Ret(r1, [Blank EXCEPT !.k = "pylist", !.items = a])
    ELSE IF isMacro(ch) THEN delimitedMacro(delim, a, macros(r1, ch))
    ELSE delimitedForm(delim, a, read(back(r1), TRUE))

delimitedAt(delim, r1, a) == delimitedChar(delim, r1, first(r1), a)

readDelimitedListLoop(delim, r, a) == delimitedAt(delim, skipWhitespace(read1(r)), a)

readDelimitedList(delim, r) == readDelimitedListLoop(delim, r, <<>>)

\* `apply(RT.list, lst).withMeta(RT.map(LINE_KEY, startline))`
listOf(lst, startline, open) ==
    IF ~lst.ok THEN lst
    ELSE Ret(lst.r, withMeta([RTlist(lst.val.items) EXCEPT !.open = open],
                             RTmap(<<LINE_KEY, Integer(startline)>>)))

listReader(r, leftparen) == listOf(readDelimitedList(")", r), lineCol(r), r.pos)

vectorOf(lst) == IF ~lst.ok THEN lst ELSE Ret(lst.r, RTvector(lst.val.items))

vectorReader(r, leftbracket) == vectorOf(readDelimitedList("]", r))

\* RT.map(*lst): an odd number of forms is a read error
mapOf(lst) ==
    IF ~lst.ok THEN lst
    ELSE IF Len(lst.val.items) % 2 # 0
    THEN Raise(lst.r, "ReaderException", "Map literal must contain an even number of forms")
    ELSE Ret(lst.r, RTmap(lst.val.items))

mapReader(r, leftbrace) == mapOf(readDelimitedList("}", r))

\* persistenthashset.create: a duplicate element is a read error
setOf(r, a) ==
    IF \E i, j \in 1..Len(a) : i < j /\ a[i] = a[j]
    THEN Raise(r, "ReaderException", "Duplicate key")
    ELSE Ret(r, [Blank EXCEPT !.k = "set", !.items = a])

setRead(lst) == IF ~lst.ok THEN lst ELSE setOf(lst.r, lst.val.items)

setReader(r, leftbrace) == setRead(readDelimitedList("}", r))

discarded(o) == IF ~o.ok THEN o ELSE Ret(o.r, RDR)

discardReader(r, underscore) == discarded(read(r, TRUE))

\* the metadata map a symbol, string, keyword or map stands for
metaMap(meta) ==
    IF meta.k \in {"sym", "str"} THEN RTmap(<<TAG_KEY, meta>>)
    ELSE IF meta.k = "kw" THEN RTmap(<<meta, True>>)
    ELSE meta

\* `o = read(...)` and `return o.withMeta(meta)`
metaTarget(meta, o) ==
    IF ~o.ok THEN o
    ELSE IF ~hasWithMeta(o.val)
    THEN Raise(o.r, "ReaderException", "Cannot attach meta to a object without .withMeta")
    ELSE Ret(o.r, withMeta(o.val, metaMap(meta)))

\* meta is the outcome of reading the metadata form; line is not used
metaRead(meta, line) ==
    IF ~meta.ok THEN meta
    ELSE IF meta.val.k \notin {"sym", "str", "kw", "map"}
    THEN Raise(meta.r, "ReaderException", "Metadata must be Symbol,Keyword,String or Map")
    ELSE metaTarget(meta.val, read(meta.r, TRUE))

metaReader(r, caret) == metaRead(read(r, TRUE), lineCol(r))

varQuoted(form, line) ==
    IF ~form.ok THEN form
    ELSE Ret(form.r, withMeta(RTlist(<<_VAR_, form.val>>),
                              RTmap(<<LINE_KEY, Integer(line)>>)))

varQuoteReader(r, singlequote) == varQuoted(read(r, TRUE), lineCol(r))

unquoted(sym, o) == IF ~o.ok THEN o ELSE Ret(o.r, RTlist(<<sym, o.val>>))

\* r1 has read the character s after the tilde
unquoteChar(r1, s) ==
    IF s = "" THEN Raise(r1, "ReaderException", "EOF reading unquote")
    ELSE IF s = "@" THEN unquoted(_UNQUOTE_SPLICING_, read(r1, TRUE))
    ELSE unquoted(_UNQUOTE_, read(back(r1), TRUE))

unquoteReader(r, tilde) == unquoteChar(read1(r), first(read1(r)))

(***************************************************************************)
(* #( ... ) and its % arguments                                            *)
(***************************************************************************)
\* the symbol for position n made with the id RT.nextID() returned
gargSymbol(n, id) == symbol(<<>>, <<"p">> \o str(n) \o <<"_", "_">> \o str(id) \o <<"#">>)

\* .val is the symbol, .r the reader after RT.nextID()
garg(r, n) ==
    IF n = -1 THEN [r |-> r, val |-> symbol(<<>>, <<"r", "e", "s", "t">>)]
    ELSE [r |-> nextIDr(r), val |-> gargSymbol(n, nextIDr(r).id)]

\* `ret = garg(arg); ARG_ENV.set(argsyms.assoc(arg, ret)); return ret`
registerNew(argsyms, arg, g) ==
    Ret(observe(varSet(g.r, "ARG_ENV", assoc(argsyms, Integer(arg), g.val)),
                Ev("registerArg", "", arg, <<g.val>>, <<>>, <<>>)),
        g.val)

\* `ret = argsyms[arg]` and what follows it
registerLookup(r, argsyms, arg, ret) ==
    IF ret = None THEN registerNew(argsyms, arg, garg(r, arg))
    ELSE Ret(observe(r, Ev("registerArg", "", arg, <<ret>>, <<>>, <<>>)), ret)

\* a registerArg that makes a new symbol at every reference
registerArg_noReuse(r, arg) ==
    IF ~deref(r.frames, "ARG_ENV").bound
    THEN Raise(r, "IllegalStateException", "arg literal not in #()")
    ELSE registerNew(deref(r.frames, "ARG_ENV").m, arg, garg(r, arg))

registerArg(r, arg) ==
    IF ~deref(r.frames, "ARG_ENV").bound
    THEN Raise(r, "IllegalStateException", "arg literal not in #()")
    ELSE registerLookup(r, deref(r.frames, "ARG_ENV").m, arg,
                        mapGet(deref(r.frames, "ARG_ENV").m, Integer(arg)))

\* n is the outcome of reading the form after the %
argForm(n) ==
    IF ~n.ok THEN n
    ELSE IF n.val.k = "sym" /\ n.val.ns = _AMP_.ns /\ n.val.name = _AMP_.name
    THEN registerArg(n.r, -1)
    ELSE IF n.val.k \notin {"int", "bool"}
    THEN Raise(n.r, "IllegalStateException", "arg literal must be %, %& or %integer")
    ELSE registerArg(n.r, n.val.n)

\* `ch = read1(rdr); rdr.back()`: ch is the character after the %, and r the
\* stream stepped back before it
argChar(r, ch) ==
    IF ch = "" \/ isWhitespace(ch) \/ isTerminatingMacro(ch) THEN registerArg(r, 1)
    ELSE argForm(read(r, TRUE))

argReader(r, perc) ==
    IF ~deref(r.frames, "ARG_ENV").bound THEN interpretRead(readToken(r, "%"))
    ELSE argChar(back(read1(r)), first(read1(r)))

RECURSIVE fnArgs(_, _, _, _, _)

\* `args.append(garg(x))`
fnFresh(g, drefed, x, last, args) == fnArgs(g.r, drefed, x + 1, last, Append(args, g.val))

\* the loop `for x in range(1, last + 1)` of fnReader
fnArgs(r, drefed, x, last, args) ==
    IF x > last THEN [r |-> r, val |-> args]
    ELSE IF hasKey(drefed, Integer(x))
    THEN fnArgs(r, drefed, x + 1, last, Append(args, mapGet(drefed, Integer(x))))
    ELSE fnFresh(garg(r, x), drefed, x, last, args)

\* index in the trace of the "call" event of the read call under way
callAt(tr) == CHOOSE i \in 1..Len(tr) : tr[i].ev = "call" /\ \A j \in (i + 1)..Len(tr) : tr[j].ev # "call"

\* #( readers begun and not yet returned in this read call
activeFn(tr) ==
    Cardinality({i \in callAt(tr)..Len(tr) : tr[i].ev = "fn.begin"})
        - Cardinality({i \in callAt(tr)..Len(tr) : tr[i].ev = "fn.end"})

\* a test that never sees the enclosing #(
argEnvBound_never(r) == FALSE

\* the test `ARG_ENV.deref() is not None` that opens fnReader
argEnvBound(r) == deref(r.frames, "ARG_ENV").bound

\* `popThreadBindings(); return RT.list(_FN_, vargs, form)`
fnForm(r, args, form, drefed) ==
    Ret(observe(popThreadBindings(r), Ev("fn.end", "", 0, args, <<form>>, drefed)),
        RTlist(<<_FN_, RTvector(args), form>>))

\* `retsym = drefed[-1]; if retsym is not None: args.append(_AMP_); args.append(retsym)`
fnRest(positional, retsym, form, drefed) ==
    fnForm(positional.r,
           IF retsym # None THEN positional.val \o <<_AMP_, retsym>> ELSE positional.val,
           form, drefed)

\* the largest element of a non-empty set of integers
last(sargs) == CHOOSE x \in sargs : \A y \in sargs : y <= x

\* `if len(sargs):` and the block it guards
fnParams(r, form, drefed, sargs) ==
    IF sargs = {} THEN fnForm(r, <<>>, form, drefed)
    ELSE fnRest(fnArgs(r, drefed, 1, last(sargs), <<>>), mapGet(drefed, Integer(-1)),
                form, drefed)

\* `drefed = ARG_ENV.deref()` and sargs, its keys other than -1
fnEnv(r, form, drefed) ==
    fnParams(r, form, drefed, {drefed[i].key.n : i \in 1..Len(drefed)} \ {-1})

\* form is the outcome of reading the body
fnBody(form) ==
    IF ~form.ok THEN form
    ELSE fnEnv(form.r, form.val, deref(form.r.frames, "ARG_ENV").m)

\* the events that mark a #( met inside another and the start of a body
fnNested(r) ==
    IF activeFn(r.trace) > 0 THEN observe(r, Ev("fn.nested", "", 0, <<>>, <<>>, <<>>)) ELSE r

fnBegin(r) == observe(r, Ev("fn.begin", "", 0, <<>>, <<>>, <<>>))

fnReader(r, lparen) ==
    IF argEnvBound(r)
    THEN Raise(fnNested(r), "IllegalStateException", "Nested #()s are not allowed")
    ELSE fnBody(read(back(fnBegin(pushThreadBindings(fnNested(r), "ARG_ENV", EMPTY_MAP))),
                     TRUE))

(***************************************************************************)
(* Syntax quote                                                            *)
(***************************************************************************)
isUnquote(form) ==
    form.k = "list" /\ Len(form.items) >= 1 /\ form.items[1].k = "sym"
        /\ form.items[1].ns = <<>> /\ form.items[1].name = _UNQUOTE_.name

isUnquoteSplicing(form) ==
    form.k = "list" /\ Len(form.items) >= 1 /\ form.items[1].k = "sym"
        /\ form.items[1].ns = <<>> /\ form.items[1].name = _UNQUOTE_SPLICING_.name

\* names of the special forms the compiler registers as builtins
compilerbuiltins ==
    {<<"q", "u", "o", "t", "e">>, <<"f", "n">>, <<"d", "e", "f">>, <<"i", "f">>,
     <<"d", "o">>, <<"n", "s">>, <<".">>}

USER_NS == <<"u", "s", "e", "r">>

\* the meta map of a form without its :line entry, as k1 v1 k2 v2 ...
RECURSIVE withoutLine(_)
withoutLine(kvs) ==
    IF Len(kvs) < 2 THEN <<>>
    ELSE IF kvs[1] = LINE_KEY THEN withoutLine(Drop(kvs, 2))
    ELSE <<kvs[1], kvs[2]>> \o withoutLine(Drop(kvs, 2))

\* a lookup that never finds the symbol generated earlier
gensymLookup_miss(gmap, key) == None

\* the lookup `gs = gmap[sym]` of an auto-gensym in the current GENSYM_ENV map
gensymLookup(gmap, key) == mapGet(gmap.m, key)

\* a result of the branches of syntaxQuote that goes on to its metadata step
sqOut(o) == [o EXCEPT !.val = [early |-> FALSE, form |-> o.val]]

\* the branch of syntaxQuote for a bare symbol ending in #
sqGensym(r, form) ==
    LET key == symbol(form.ns, form.name)
        gmap == deref(r.frames, "GENSYM_ENV")
        gs == gensymLookup(gmap, key)
        r1 == nextIDr(r)
        fresh == symbol(<<>>, SubSeq(form.name, 1, Len(form.name) - 1)
                              \o <<"_", "_">> \o str(r1.id)
                              \o <<"_", "_", "a", "u", "t", "o", "_", "_">>)
        at == topOf(r.frames, "GENSYM_ENV")
    IN  IF ~gmap.bound
        THEN Raise(r, "ReaderException", "Gensym literal not in syntax-quote, before")
        ELSE IF gs = None
        THEN Ret(observe(varSet(r1, "GENSYM_ENV", assoc(gmap.m, key, fresh)),
                         Ev("gensym", "", at, <<key>>, <<fresh>>, <<>>)),
                 RTlist(<<_QUOTE_, fresh>>))
        ELSE Ret(observe(r, Ev("gensym", "", at, <<key>>, <<gs>>, <<>>)),
                 RTlist(<<_QUOTE_, gs>>))

\* the branches of syntaxQuote for a symbol that is no compiler builtin
sqSymbol(r, form) ==
    IF form.ns = <<>> /\ endswith(form.name, <<"#">>) THEN sqGensym(r, form)
    ELSE IF (form.ns = <<>> /\ endswith(form.name, <<".">>))
            \/ (form.ns = <<>> /\ form.name[1] = ".")
            \/ form.ns # <<>>
    THEN Ret(r, RTlist(<<_QUOTE_, form>>))
    ELSE IF r.comp = "none"
    THEN Raise(r, "IllegalStateException", "No Compiler found in syntax quote!")
    ELSE IF r.comp = "nons"
    THEN Raise(r, "IllegalStateException", "No ns in reader")
    ELSE Ret(r, RTlist(<<_QUOTE_, symbol(USER_NS, form.name)>>))

\* (apply vector (seq (concat ...))) around the expanded elements
sqVector(exp) ==
    IF ~exp.ok THEN exp
    ELSE Ret(exp.r, RTlist(<<_APPLY_, _VECTOR_,
                             RTlist(<<_SEQ_, RTlist(<<_CONCAT_>> \o exp.val.items)>>)>>))

\* (seq (concat ...)) around the expanded elements
sqSeq(exp) ==
    IF ~exp.ok THEN exp
    ELSE Ret(exp.r, RTlist(<<_SEQ_, RTlist(<<_CONCAT_>> \o exp.val.items)>>))

\* the branches of syntaxQuote before its metadata step; `early` marks the
\* `return` of the unquote branch, which skips that step
sqBranches(r, form) ==
    IF form.k = "sym" /\ form.ns = <<>> /\ form.name \in compilerbuiltins
    THEN sqOut(Ret(r, RTlist(<<_QUOTE_, form>>)))
    ELSE IF form.k = "sym" THEN sqOut(sqSymbol(r, form))
    ELSE IF isUnquote(form)
    THEN [Ret(r, None) EXCEPT !.val = [early |-> TRUE, form |-> form.items[2]]]
    ELSE IF isUnquoteSplicing(form)
    THEN sqOut(Raise(r, "IllegalStateException", "splice not in list"))
    ELSE IF form.k = "map"
    THEN sqOut(Raise(r, "NameError", "global name 'form' is not defined"))
    ELSE IF form.k \in {"vec", "set"}
    THEN sqOut(sqVector(sqExpandList(r, form.items, <<>>)))
    ELSE IF form.k = "list"
    THEN IF form.items = <<>> THEN sqOut(Ret(r, RTlist(<<_LIST_>>)))
         ELSE sqOut(sqSeq(sqExpandList(r, form.items, <<>>)))
    ELSE IF form.k \in {"int", "bool", "float", "str", "kw"}
    THEN sqOut(Ret(r, form))
    ELSE sqOut(Ret(r, RTlist(<<_QUOTE_, form>>)))

\* every call is observed with its form and its outcome
sqObserve(form, o) ==
    [o EXCEPT !.r = observe(o.r, Ev("syntaxQuote", IF o.ok THEN "ok" ELSE o.msg, 0,
                                    <<form>>, <<o.val>>, <<>>))]

\* the metadata step that ends syntaxQuote
sqMeta(form, b) ==
    IF ~b.ok THEN [b EXCEPT !.val = None]
    ELSE IF b.val.early THEN [b EXCEPT !.val = b.val.form]
    ELSE IF form.meta # <<>> /\ Len(withoutLine(form.meta[1].items)) > 0
    THEN Raise(b.r, "NameError", "global name '_WITH_META_' is not defined")
    ELSE [b EXCEPT !.val = b.val.form]

syntaxQuote(r, form) == sqObserve(form, sqMeta(form, sqBranches(r, form)))

\* the last branch of the loop of sqExpandList, with the quoted item q
sqExpandItem(seq, ret, q) ==
    IF ~q.ok THEN q
    ELSE sqExpandList(q.r, Tail(seq), Append(ret, RTlist(<<_LIST_, q.val>>)))

\* an sqExpandList that splices the target of an unquote like that of ~@
sqExpandList_spliceAll(r, seq, ret) ==
    IF seq = <<>> THEN Ret(r, [Blank EXCEPT !.k = "pylist", !.items = ret])
    ELSE IF isUnquote(seq[1]) \/ isUnquoteSplicing(seq[1])
    THEN sqExpandList(r, Tail(seq), Append(ret, seq[1].items[2]))
    ELSE sqExpandItem(seq, ret, syntaxQuote(r, seq[1]))

sqExpandList(r, seq, ret) ==
    IF seq = <<>> THEN Ret(r, [Blank EXCEPT !.k = "pylist", !.items = ret])
    ELSE IF isUnquote(seq[1])
    THEN sqExpandList(r, Tail(seq), Append(ret, RTlist(<<_LIST_, seq[1].items[2]>>)))
    ELSE IF isUnquoteSplicing(seq[1])
    THEN sqExpandList(r, Tail(seq), Append(ret, seq[1].items[2]))
    ELSE sqExpandItem(seq, ret, syntaxQuote(r, seq[1]))

\* the `finally: popThreadBindings()` of SyntaxQuoteReader.__call__
sqFinally(o) == [o EXCEPT !.r = popThreadBindings(o.r)]

\* the body of the try block once the form is read
sqQuoteRead(form) == IF ~form.ok THEN form ELSE syntaxQuote(form.r, form.val)

\* SyntaxQuoteReader.__call__: try ... finally popThreadBindings()
SyntaxQuoteReader(r, backquote) ==
    sqFinally(sqQuoteRead(read(pushThreadBindings(r, "GENSYM_ENV", EMPTY_MAP), TRUE)))

(***************************************************************************)
(* Strings and characters                                                  *)
(***************************************************************************)
isHexCharacter(ch) == ch = "" \/ ch \in HexDigits

isOctalCharacter(ch) == ch = "" \/ ch \in {"0", "1", "2", "3", "4", "5", "6", "7"}

MAX_UNICODE == 1114111

\* one character of a string value: a character of the text, or a codepoint
Lit(c) == [c |-> c, cp |-> 0 - 1]

unichr(n) == [c |-> "", cp |-> n]

\* the digits after an optional 0x / 0o prefix of the base
pyDigits(b, base) ==
    IF /\ Len(b) >= 2
       /\ b[1] = "0"
       /\ \/ base = 16 /\ b[2] \in {"x", "X"}
          \/ base = 8 /\ b[2] \in {"o", "O"}
    THEN Drop(b, 2) ELSE b

pyIntDigits(sgn, ds, base) ==
    IF Len(ds) >= 1 /\ \A i \in 1..Len(ds) : DigitVal(ds[i]) \in 0..(base - 1)
    THEN [ok |-> TRUE, n |-> sgn * ParseInt(ds, base)]
    ELSE [ok |-> FALSE, n |-> 0]

\* int(s, base) of a digit string: an optional sign, an optional 0x / 0o
\* prefix of the base, digits below the base
pyInt(s, base) == pyIntDigits(signOf(s), pyDigits(unsigned(s), base), base)

\* unichr(n) of the parsed digits; ValueError when int() or unichr() raises
codepointOf(n) ==
    IF ~n.ok \/ n.n < 0 \/ n.n > MAX_UNICODE THEN [ok |-> FALSE, cp |-> 0]
    ELSE [ok |-> TRUE, cp |-> n.n]

stringCodepointToUnicodeChar(token, offset, length, base) ==
    IF Len(token) # offset + length THEN [ok |-> FALSE, cp |-> 0]
    ELSE codepointOf(pyInt(Drop(token, offset), base))

\* the loop `for i in range(1, length)`; .i is the loop variable at its end
RECURSIVE readUnicodeLoop(_, _, _, _, _, _)
readUnicodeLoop(r, digits, i, base, length, exact) ==
    LET r1 == read1(r)
        ch == first(r1)
    IN  IF i > length - 1 THEN [st |-> "end", r |-> r, digits |-> digits, i |-> length - 1]
        ELSE IF ch = "" \/ isWhitespace(ch) \/ isMacro(ch)
        THEN [st |-> "end", r |-> back(r1), digits |-> digits, i |-> i]
        ELSE IF DigitVal(ch) \in 0..(base - 1)
        THEN readUnicodeLoop(r1, Append(digits, ch), i + 1, base, length, exact)
        ELSE IF exact THEN [st |-> "raise", r |-> r1, digits |-> digits, i |-> i]
        ELSE [st |-> "end", r |-> back(r1), digits |-> digits, i |-> i]

\* unichr(int("".join(digits), base))
unicodeOf(r, cp) ==
    IF cp > MAX_UNICODE THEN Raise(r, "ValueError", "unichr() arg not in range")
    ELSE Ret(r, Integer(cp))

\* the end of readUnicodeChar: l is the outcome of its loop
readUnicodeEnd(l, base, length, exact) ==
    IF l.st = "raise" THEN Raise(l.r, "ReaderException", "Expected base digit")
    ELSE IF l.i # length - 1 /\ exact
    THEN Raise(l.r, "ReaderException", "Invalid character length")
    ELSE unicodeOf(l.r, ParseInt(l.digits, base))

\* .val.n of the result is the codepoint of the character read
readUnicodeChar(r, initch, base, length, exact) ==
    IF initch = "" \/ DigitVal(initch) \notin 0..(base - 1)
    THEN Raise(r, "ReaderException", "Expected base digit")
    ELSE readUnicodeEnd(readUnicodeLoop(r, <<initch>>, 1, base, length, exact),
                        base, length, exact)

BACKSPACE == 8

chrLiterals(ch) ==
    CASE ch = "t" -> Lit("\t")
      [] ch = "r" -> Lit("\r")
      [] ch = "n" -> Lit("\n")
      [] ch = "b" -> unichr(BACKSPACE)
      [] ch = "\\" -> Lit("\\")
      [] ch = "\"" -> Lit("\"")
      [] ch = "f" -> Lit("\f")

OCTAL_MAX == 255

RECURSIVE stringLoop(_, _)

\* a \u or \U escape read as u
stringUnicode(buf, u) ==
    IF ~u.ok THEN u ELSE stringLoop(read1(u.r), Append(buf, unichr(u.val.n)))

\* an octal escape read as o
stringOctal(buf, o) ==
    IF ~o.ok THEN o
    ELSE IF o.val.n > OCTAL_MAX
    THEN Raise(o.r, "ReaderException", "Octal escape sequence in literal string must be in range [0, 377]")
    ELSE stringLoop(read1(o.r), Append(buf, unichr(o.val.n)))

\* the escape after a backslash: r1 has read the character c1 after it
stringEscape(r1, c1, buf) ==
    IF c1 = "" THEN Raise(r1, "ReaderException", "EOF while reading string")
    ELSE IF c1 \in {"t", "r", "n", "b", "\\", "\"", "f"}
    THEN stringLoop(read1(r1), Append(buf, chrLiterals(c1)))
    ELSE IF c1 \in {"u", "U"}
    THEN IF ~isHexCharacter(first(read1(r1)))
         THEN Raise(read1(r1), "ReaderException", "Hexidecimal digit expected after \\u in literal string")
         ELSE stringUnicode(buf, readUnicodeChar(read1(r1), first(read1(r1)), 16,
                                                 IF c1 = "u" THEN 4 ELSE 8, TRUE))
    ELSE IF isOctalCharacter(c1)
    THEN stringOctal(buf, readUnicodeChar(r1, c1, 8, 3, FALSE))
    ELSE Raise(r1, "ReaderException", "Unsupported escape character in literal string")

\* one round of the `while True` of stringReader on the current character ch
stringChar(r, ch, buf) ==
    IF ch = "" THEN Raise(r, "ReaderException", "EOF while reading string")
    ELSE IF ch = "\\" THEN stringEscape(read1(r), first(read1(r)), buf)
    ELSE IF ch = "\"" THEN Ret(r, Str(buf))
    ELSE stringLoop(read1(r), Append(buf, Lit(ch)))

\* the `while True` of stringReader, entered with the current character read
stringLoop(r, buf) == stringChar(r, first(r), buf)

stringReader(r, doublequote) == stringLoop(read1(r), <<>>)

\* the character a named character token stands for, 0 when it is none
tokenMappings(token) ==
    IF token = <<"n", "e", "w", "l", "i", "n", "e">> THEN 10
    ELSE IF token = <<"s", "p", "a", "c", "e">> THEN 32
    ELSE IF token = <<"t", "a", "b">> THEN 9
    ELSE IF token = <<"b", "a", "c", "k", "s", "p", "a", "c", "e">> THEN 8
    ELSE IF token = <<"f", "o", "r", "m", "f", "e", "e", "d">> THEN 12
    ELSE IF token = <<"r", "e", "t", "u", "r", "n">> THEN 13
    ELSE 0

SURROGATE_LO == 55296

SURROGATE_HI == 57343

\* the branch of characterReader for a token u<hex digits>
characterUnicode(r, u) ==
    IF ~u.ok THEN Raise(r, "ReaderException", "Invalid unicode character")
    ELSE IF u.cp >= SURROGATE_LO /\ u.cp <= SURROGATE_HI
    THEN Raise(r, "Exception", "Invalid character constant in literal string")
    ELSE Ret(r, [Blank EXCEPT !.k = "unicode", !.name = <<unichr(u.cp)>>])

\* the branch of characterReader for a token o<octal digits>
characterOctal(r, o) ==
    IF ~o.ok THEN Raise(r, "ReaderException", "Invalid unicode character")
    ELSE IF o.cp > OCTAL_MAX
    THEN Raise(r, "Exception", "Octal escape sequence in literal string must be in range [0, 377]")
    ELSE Ret(r, [Blank EXCEPT !.k = "unicode", !.name = <<unichr(o.cp)>>])

\* characterReader once the token is read; r is the stream after it
characterToken(r, token) ==
    IF Len(token) = 1 THEN Ret(r, Character(<<Lit(token[1])>>))
    ELSE IF tokenMappings(token) # 0
    THEN Ret(r, Character(<<unichr(tokenMappings(token))>>))
    ELSE IF token[1] = "u"
    THEN characterUnicode(r, stringCodepointToUnicodeChar(token, 1, 4, 16))
    ELSE IF token[1] = "o"
    THEN IF Len(token) > 4
         THEN Raise(r, "Exception", "Invalid octal escape sequence length in literal string")
         ELSE characterOctal(r, stringCodepointToUnicodeChar(token, 1, Len(token) - 1, 8))
    ELSE Raise(r, "Exception", "Unsupported character")

\* t is the token read and the stream after it
characterRead(t) == characterToken(t.r, t.s)

\* r1 has read the character ch after the backslash
characterFrom(r1, ch) ==
    IF ch = "" THEN Raise(r1, "Exception", "EOF while reading character")
    ELSE characterRead(readToken(r1, ch))

characterReader(r, backslash) == characterFrom(read1(r), first(read1(r)))

(***************************************************************************)
(* The dispatch tables                                                     *)
(***************************************************************************)
macros(r, ch) ==
    CASE ch = "\"" -> stringReader(r, ch)
      [] ch = "'" -> wrappingReader(r, _QUOTE_)
      [] ch = "(" -> listReader(r, ch)
      [] ch = ")" -> unmatchedDelimiterReader(r, ch)
      [] ch = "[" -> vectorReader(r, ch)
      [] ch = "]" -> unmatchedDelimiterReader(r, ch)
      [] ch = "{" -> mapReader(r, ch)
      [] ch = "}" -> unmatchedDelimiterReader(r, ch)
      [] ch = ";" -> commentReader(r, ch)
      [] ch = "#" -> dispatchReader(r, ch)
      [] ch = "^" -> metaReader(r, ch)
      [] ch = "%" -> argReader(r, ch)
      [] ch = BACKQUOTE -> SyntaxQuoteReader(r, ch)
      [] ch = "~" -> unquoteReader(r, ch)
      [] ch = "\\" -> characterReader(r, ch)

dispatchMacros(r, ch) ==
    CASE ch = "\"" -> regexReader(r, ch)
      [] ch = "{" -> setReader(r, ch)
      [] ch = "!" -> commentReader(r, ch)
      [] ch = "_" -> discardReader(r, ch)
      [] ch = "(" -> fnReader(r, ch)
      [] ch = "'" -> varQuoteReader(r, ch)
      [] ch = "^" -> metaReader(r, ch)

(***************************************************************************)
(* The program: a stream over `text`, read one top-level form at a time    *)
(***************************************************************************)
Reader == [text |-> text, pos |-> pos, frames |-> frames, id |-> nextID,
           comp |-> currentCompiler,
           trace |-> Append(trace, Ev("call", "", pos, <<>>, <<>>, <<>>)),
           lastOp |-> lastOp]

NoResult == [called |-> FALSE, ok |-> TRUE, kind |-> "", msg |-> "", val |-> None,
             eofIsError |-> FALSE, before |-> <<>>]

\* read(rdr, eofIsError, None, False) by the caller of the reader
\* the stream, the bindings and the id counter after the call, and its outcome
Returned(o, eofIsError) ==
    /\ pos' = o.r.pos
    /\ frames' = o.r.frames
    /\ nextID' = o.r.id
    /\ trace' = o.r.trace
    /\ lastOp' = o.r.lastOp
    /\ result' = [called |-> TRUE, ok |-> o.ok, kind |-> o.kind, msg |-> o.msg,
                  val |-> o.val, eofIsError |-> eofIsError, before |-> frames]

Read(eofIsError) ==
    /\ pos <= Len(text)
    /\ Returned(read(Reader, eofIsError), eofIsError)
    /\ UNCHANGED <<text, currentCompiler, expect>>

Next == \E eofIsError \in BOOLEAN : Read(eofIsError)

(***************************************************************************)
(* Specifications: the text is any sequence of at most MaxItems lexemes of *)
(* a lexeme set, and the stream starts before its first character.         *)
(***************************************************************************)
MaxItems == 4

RECURSIVE Flatten(_)
Flatten(ss) == IF ss = <<>> THEN <<>> ELSE ss[1] \o Flatten(Tail(ss))

Texts(Lex, n) == UNION {{Flatten(t) : t \in [1..k -> Lex]} : k \in 0..n}

InitWith(T, Comps) ==
    /\ text \in T
    /\ pos = 0
    /\ frames = <<>>
    /\ nextID = 0
    /\ currentCompiler \in Comps
    /\ result = NoResult
    /\ trace = <<>>
    /\ lastOp = "none"
    /\ expect = <<>>

\* texts around #( ... ) and its % arguments
FnLex == {<<"#", "(">>, <<"(">>, <<")">>, <<"%">>, <<"%", "&">>, <<"%", "2">>, <<"a">>}

Init == InitWith(Texts(FnLex, MaxItems), {"user"})

Spec == Init /\ [][Next]_vars

(***************************************************************************)
(* Properties.  Cur is the part of the trace the last read call wrote.     *)
(***************************************************************************)
Cur == IF result.called THEN callAt(trace)..Len(trace) ELSE {}

\* the binding of a var as the caller of read sees it
Binding(fr, v) == deref(fr, v)

\* C1: a read call that entered the #( reader leaves ARG_ENV bound as it was
\* before the call, whether the call returned a form or failed.
C1_ArgEnvRestored ==
    (\E i \in Cur : trace[i].ev \in {"fn.begin", "fn.nested"})
        => Binding(frames, "ARG_ENV") = Binding(result.before, "ARG_ENV")

\* C3: when the body of #( ... ) registered the rest position -1, the
\* parameter vector ends with & and the registered rest symbol.
C3_RestParamEmitted ==
    \A i \in 1..Len(trace) :
        (trace[i].ev = "fn.end" /\ hasKey(trace[i].env, Integer(-1)))
            => LET args == trace[i].x
               IN  /\ Len(args) >= 2
                   /\ args[Len(args) - 1] = _AMP_
                   /\ args[Len(args)] = mapGet(trace[i].env, Integer(-1))

\* the largest positive position registered in an ARG_ENV map, 0 when none
MaxPosition(env) ==
    LET P == {env[j].key.n : j \in 1..Len(env)} \cap (1..(10 * (Len(text) + 1)))
    IN  IF P = {} THEN 0 ELSE CHOOSE x \in P : \A y \in P : y <= x

\* sym is a symbol garg makes for position j
IsGenerated(sym, j) ==
    LET pre == <<"p">> \o str(j) \o <<"_", "_">>
    IN  /\ sym.k = "sym"
        /\ sym.ns = <<>>
        /\ Len(sym.name) > Len(pre) + 1
        /\ SubSeq(sym.name, 1, Len(pre)) = pre
        /\ sym.name[Len(sym.name)] = "#"
        /\ AllIn(SubSeq(sym.name, Len(pre) + 1, Len(sym.name) - 1), DecDigits)

\* the symbols p...# that occur in a form
RECURSIVE ParamSyms(_)
ParamSyms(f) ==
    IF f.k = "sym"
    THEN IF f.ns = <<>> /\ Len(f.name) >= 2 /\ f.name[1] = "p" /\ f.name[Len(f.name)] = "#"
         THEN {f} ELSE {}
    ELSE UNION {ParamSyms(f.items[j]) : j \in 1..Len(f.items)}

FnBeginOf(i) ==
    CHOOSE b \in 1..i : trace[b].ev = "fn.begin"
                        /\ \A c \in (b + 1)..i : trace[c].ev # "fn.begin"

\* C4: with k the largest positive position registered, #( ... ) emits
\* (fn [p1 .. pk ..] body) with exactly k positional parameters; pi is the
\* symbol every %i of the body was replaced by (% alone is %1), and a fresh
\* generated symbol when position i was never referenced.
C4_FnParams ==
    /\ \A i \in 1..Len(trace) :
          trace[i].ev = "fn.end"
            => LET env == trace[i].env
                   args == trace[i].x
                   body == trace[i].y[1]
                   k == MaxPosition(env)
               IN  /\ Len(args) = k \/ (Len(args) = k + 2 /\ args[k + 1] = _AMP_)
                   /\ \A j \in 1..k :
                         IF hasKey(env, Integer(j))
                         THEN args[j] = mapGet(env, Integer(j))
                         ELSE /\ IsGenerated(args[j], j)
                              /\ \A m \in 1..Len(env) : env[m].val # args[j]
                              /\ \A j2 \in 1..Len(args) : j2 # j => args[j2] # args[j]
                   /\ \A m \in FnBeginOf(i)..i :
                         (trace[m].ev = "registerArg" /\ trace[m].n >= 1)
                            => /\ trace[m].n <= k
                               /\ trace[m].x[1] = args[trace[m].n]
                               /\ trace[m].x[1] \in ParamSyms(body)
    /\ (/\ result.called
        /\ result.ok
        /\ trace[callAt(trace)].n + 2 <= Len(text)
        /\ text[trace[callAt(trace)].n + 1] = "#"
        /\ text[trace[callAt(trace)].n + 2] = "(")
          => LET e == trace[Len(trace)]
             IN  /\ e.ev = "fn.end"
                 /\ result.val = RTlist(<<_FN_, RTvector(e.x), e.y[1]>>)

\* a #( ... ) returned whose body uses %2 twice and %1 never
C4_Witness ==
    \E i \in 1..Len(trace) :
        /\ trace[i].ev = "fn.end"
        /\ MaxPosition(trace[i].env) = 2
        /\ ~hasKey(trace[i].env, Integer(1))
        /\ Cardinality({m \in FnBeginOf(i)..i : trace[m].ev = "registerArg"}) >= 2

\* C5: a #( met while the body of another #( ... ) is being read makes the
\* read fail with "Nested #()s are not allowed", returns no form, and binds
\* no second ARG_ENV.
C5_NestedFnFails ==
    \A i \in Cur : trace[i].ev = "fn.nested"
        => /\ ~result.ok
           /\ result.msg = "Nested #()s are not allowed"
           /\ result.val = None
           /\ \A j \in (i + 1)..Len(trace) :
                  ~(trace[j].ev = "push" /\ trace[j].name = "ARG_ENV")
           /\ Cardinality({j \in callAt(trace)..i :
                              trace[j].ev = "push" /\ trace[j].name = "ARG_ENV"})
                  - Cardinality({j \in callAt(trace)..i : trace[j].ev = "fn.end"}) = 1

\* a #( met inside a list inside the body of another #(
C5_Witness ==
    \E i \in Cur : /\ trace[i].ev = "fn.nested"
                   /\ text[trace[callAt(trace)].n + 3] = "("

\* texts where a #( is read inside a syntax-quote
LeakLex == {<<BACKQUOTE>>, <<"#", "(">>, <<"(">>, <<")">>, <<"a">>, <<"%">>}

InitLeak == InitWith(Texts(LeakLex, MaxItems), {"user"})

SpecLeak == InitLeak /\ [][Next]_vars

\* C2: a read call that entered the syntax-quote reader leaves GENSYM_ENV
\* bound as it was before the call, whether the call returned a form or
\* failed.
C2_GensymEnvRestored ==
    (\E i \in Cur : trace[i].ev = "push" /\ trace[i].name = "GENSYM_ENV")
        => Binding(frames, "GENSYM_ENV") = Binding(result.before, "GENSYM_ENV")

\* texts of syntax-quoted symbols ending in #
GensymLex == {<<BACKQUOTE, "(", "x", "#", " ">>, <<BACKQUOTE, "x", "#", " ">>, <<"x", "#", " ">>,
              <<"(">>, <<")">>, <<"~", "x", "#", " ">>}

InitGensym == InitWith(Texts(GensymLex, MaxItems), {"user"})

SpecGensym == InitGensym /\ [][Next]_vars

Gensyms == {i \in 1..Len(trace) : trace[i].ev = "gensym"}

\* the syntax-quote a gensym event belongs to: the push of the GENSYM_ENV
\* binding it used
OwnerOf(g) ==
    CHOOSE b \in 1..g :
        /\ trace[b].ev = "push" /\ trace[b].name = "GENSYM_ENV" /\ trace[b].n = trace[g].n
        /\ \A c \in (b + 1)..g :
              ~(trace[c].ev = "push" /\ trace[c].name = "GENSYM_ENV" /\ trace[c].n = trace[g].n)

\* C6: the occurrences of x# in one syntax-quoted form are replaced by one
\* generated symbol, and two syntax-quoted forms, sequential or nested, get
\* different generated symbols for x#.
C6_GensymScope ==
    /\ \A g \in Gensyms :
          /\ trace[g].y[1] # trace[g].x[1]
          /\ trace[g + 1].ev = "syntaxQuote"
          /\ trace[g + 1].x[1] = trace[g].x[1]
          /\ trace[g + 1].y[1] = RTlist(<<_QUOTE_, trace[g].y[1]>>)
    /\ \A g, h \in Gensyms :
          trace[g].x = trace[h].x
            => ((OwnerOf(g) = OwnerOf(h)) <=> (trace[g].y = trace[h].y))

\* one syntax-quote replaced x# twice, and a second syntax-quote replaced it too
C6_Witness ==
    \E g, h, j \in Gensyms :
        /\ g < h /\ trace[g].x = trace[h].x /\ trace[j].x = trace[g].x
        /\ OwnerOf(g) = OwnerOf(h)
        /\ OwnerOf(j) # OwnerOf(g)

\* texts of syntax-quoted lists with unquoted and spliced elements
SqLex == {<<BACKQUOTE>>, <<BACKQUOTE, "(">>, <<"(">>, <<")">>, <<"a", " ">>,
          <<"~", "b", " ">>, <<"~", "@", "b", " ">>}

InitSq == InitWith(Texts(SqLex, MaxItems), {"user", "none"})

SpecSq == InitSq /\ [][Next]_vars

IsSq(e) == e.ev = "syntaxQuote"

\* the calls of syntaxQuote, in the order they returned
SqCalls == SelectSeq(trace, IsSq)

\* an element sqExpandList hands to syntaxQuote
Ordinary(f) == ~isUnquote(f) /\ ~isUnquoteSplicing(f)

NoUserMeta(f) == f.meta = <<>> \/ withoutLine(f.meta[1].items) = <<>>

\* the number of syntaxQuote calls made for form f, and for the ordinary
\* elements of items from position j on, when none of them fails
RECURSIVE SqCount(_), SqCountFrom(_, _)
SqCount(f) ==
    IF f.k \in {"list", "vec", "set"} /\ Ordinary(f) THEN 1 + SqCountFrom(f.items, 1) ELSE 1

SqCountFrom(items, j) ==
    IF j > Len(items) THEN 0
    ELSE (IF Ordinary(items[j]) THEN SqCount(items[j]) ELSE 0) + SqCountFrom(items, j + 1)

\* the call that quoted element j of the list quoted by call i
ElemCall(i, j) == i - 1 - SqCountFrom(SqCalls[i].x[1].items, j + 1)

\* C10: syntax-quoting a non-empty list e1 ... en yields (seq (concat x1 ...
\* xn)) with xi = (list a) for ei = (~ a), xi = a for ei = (~@ a) and
\* xi = (list syntaxQuote(ei)) otherwise; an empty list yields (list); a
\* (~@ a) that is itself the syntax-quoted form fails with "splice not in
\* list".
C10_SqExpandList ==
    /\ \A i \in 1..Len(SqCalls) :
          LET f == SqCalls[i].x[1]
              out == SqCalls[i].y[1]
              n == Len(f.items)
          IN  /\ (f.k = "list" /\ isUnquoteSplicing(f))
                    => SqCalls[i].name = "splice not in list"
              /\ (f.k = "list" /\ n = 0 /\ NoUserMeta(f))
                    => SqCalls[i].name = "ok" /\ out = RTlist(<<_LIST_>>)
              /\ (f.k = "list" /\ n > 0 /\ Ordinary(f) /\ NoUserMeta(f))
                    => IF SqCalls[i].name = "ok"
                       THEN /\ out.k = "list" /\ Len(out.items) = 2
                            /\ out.items[1] = _SEQ_
                            /\ out.items[2].k = "list"
                            /\ Len(out.items[2].items) = n + 1
                            /\ out.items[2].items[1] = _CONCAT_
                            /\ \A j \in 1..n :
                                  LET e == f.items[j]
                                      x == out.items[2].items[j + 1]
                                      c == ElemCall(i, j)
                                  IN  IF isUnquote(e) THEN x = RTlist(<<_LIST_, e.items[2]>>)
                                      ELSE IF isUnquoteSplicing(e) THEN x = e.items[2]
                                      ELSE /\ c >= 1
                                           /\ SqCalls[c].x[1] = e
                                           /\ SqCalls[c].name = "ok"
                                           /\ x = RTlist(<<_LIST_, SqCalls[c].y[1]>>)
                       ELSE /\ i > 1
                            /\ SqCalls[i - 1].name = SqCalls[i].name
                            /\ \E j \in 1..n : Ordinary(f.items[j])
                                                  /\ f.items[j] = SqCalls[i - 1].x[1]
    /\ (/\ result.called
        /\ result.ok
        /\ trace[callAt(trace)].n < Len(text)
        /\ text[trace[callAt(trace)].n + 1] = BACKQUOTE)
          => /\ SqCalls # <<>>
             /\ result.val = SqCalls[Len(SqCalls)].y[1]

\* a list with an ordinary element followed by an unquoted one was quoted
C10_Witness ==
    \E i \in 1..Len(SqCalls) :
        LET f == SqCalls[i].x[1]
        IN  /\ f.k = "list" /\ SqCalls[i].name = "ok" /\ Len(f.items) = 2
            /\ Ordinary(f.items[1])
            /\ isUnquote(f.items[2])

\* texts of lists on several lines, with and without ^ metadata
MetaLex == {<<"(">>, <<")">>, <<"\n">>, <<"a", " ">>, <<"^", "a", " ">>, <<"#", "^", "a", " ">>}

InitMeta == InitWith(Texts(MetaLex, MaxItems), {"user"})

SpecMeta == InitMeta /\ [][Next]_vars

\* the lists written with parentheses in a form, itself included
RECURSIVE ReadLists(_)
ReadLists(f) ==
    (IF f.k = "list" /\ f.open > 0 THEN {f} ELSE {})
        \cup UNION {ReadLists(f.items[j]) : j \in 1..Len(f.items)}

\* the 1-based line of the character at index p of the text
LineOf(p) == 1 + Cardinality({i \in 1..(p - 1) : text[i] = "\n"})

HasLine(f, line) ==
    /\ f.meta # <<>>
    /\ \E j \in 1..Len(f.meta[1].items) :
          /\ j % 2 = 1
          /\ f.meta[1].items[j] = LINE_KEY
          /\ f.meta[1].items[j + 1] = Integer(line)

\* C8: every list in a form returned by read carries :line, the line of its
\* opening parenthesis, also when it is the target of ^ or #^.
C8_ListLine ==
    (result.called /\ result.ok)
        => \A l \in ReadLists(result.val) : HasLine(l, LineOf(l.open))

MaxForms == 3

\* forms of a stream with the value each is expected to read as, and the
\* separators between them
StreamForms ==
    {[src |-> <<"a">>, val |-> symbol(<<>>, <<"a">>)],
     [src |-> <<"1", "2">>, val |-> Integer(12)],
     [src |-> <<"-", "1">>, val |-> Integer(-1)],
     [src |-> <<"+">>, val |-> symbol(<<>>, <<"+">>)],
     [src |-> <<"(", "a", " ", "b", ")">>,
      val |-> RTlist(<<symbol(<<>>, <<"a">>), symbol(<<>>, <<"b">>)>>)]}

Separators == {<<>>, <<" ">>, <<",">>, <<";", "c", "\n">>}

StreamItems == [form : StreamForms, sep : Separators]

\* two forms may touch only where a parenthesis delimits them
Delimited(its) ==
    \A i \in 1..(Len(its) - 1) :
        its[i].sep = <<>>
            => \/ its[i].form.src[Len(its[i].form.src)] = ")"
               \/ its[i + 1].form.src[1] = "("

RECURSIVE StreamText(_)
StreamText(its) ==
    IF its = <<>> THEN <<>> ELSE its[1].form.src \o its[1].sep \o StreamText(Tail(its))

\* for each form its first and last index in the text, and its value
Expected(its) ==
    [i \in 1..Len(its) |->
        LET before == Len(StreamText(SubSeq(its, 1, i - 1)))
        IN  [s |-> before + 1, e |-> before + Len(its[i].form.src), val |-> its[i].form.val]]

InitStream ==
    /\ \E n \in 0..MaxForms : \E its \in [1..n -> StreamItems] :
          /\ Delimited(its)
          /\ text = StreamText(its)
          /\ expect = Expected(its)
    /\ pos = 0
    /\ frames = <<>>
    /\ nextID = 0
    /\ currentCompiler = "user"
    /\ result = NoResult
    /\ trace = <<>>
    /\ lastOp = "none"

SpecStream == InitStream /\ [][Next]_vars

\* the number of read calls made so far
Calls == Cardinality({i \in 1..Len(trace) : trace[i].ev = "call"})

\* a form without the metadata and the position the reader attached
Bare(f) == [f EXCEPT !.meta = <<>>, !.open = 0]

\* C9: the k-th read call on a stream of forms separated by whitespace,
\* commas or comments returns the k-th form and leaves the stream right
\* after the last character of that form.
C9_SuccessiveReads ==
    (result.called /\ Calls <= Len(expect))
        => /\ result.ok
           /\ Bare(result.val) = expect[Calls].val
           /\ trace[callAt(trace)].n < expect[Calls].s
           /\ pos = expect[Calls].e

\* C7: every failure of read is a ReaderException.
C7_SingleErrorKind ==
    (result.called /\ ~result.ok) => result.kind = "ReaderException"

\* texts of string literals that open with a \u or \U escape
UniOpen == {<<"\"", "\\", "u">>, <<"\"", "\\", "U">>,
            <<"\"", "\\", "U", "0", "0", "0", "0", "0">>}

UniLex == {<<"1">>, <<"1", "a">>, <<"\"">>, <<" ">>, <<"g">>}

UniTexts == {o \o t : o \in UniOpen, t \in Texts(UniLex, MaxItems)}

InitUni == InitWith(UniTexts, {"user"})

SpecUni == InitUni /\ [][Next]_vars

\* the number of digits an exact escape asks for
ExactLength(c) == IF c = "u" THEN 4 ELSE 8

\* the read call under way began at a string literal that opens with \u or
\* \U followed by a run of n hex digits
EscapeRun(n) ==
    /\ result.called
    /\ Len(text) >= trace[callAt(trace)].n + 3
    /\ text[trace[callAt(trace)].n + 1] = "\""
    /\ text[trace[callAt(trace)].n + 2] = "\\"
    /\ text[trace[callAt(trace)].n + 3] \in {"u", "U"}
    /\ PrefixLen(Drop(text, trace[callAt(trace)].n + 3), HexDigits) = n

\* C11: a string literal whose \u (\U) escape is followed by 1 .. 3 (1 .. 7)
\* hex digits and then the closing quote, whitespace, a macro character, EOF
\* or a non-hex character is not read: the call fails and returns no string.
C11_ExactUnicodeLength ==
    \A n \in 1..7 :
        (EscapeRun(n) /\ n < ExactLength(text[trace[callAt(trace)].n + 3]))
            => ~result.ok /\ result.val = None

\* forms between the delimiters of a list, the value each reads as, and
\* whether its reader hands back a value (kept) or the stream (a comment, a
\* #_ discard, a #! line)
ListForms ==
    {[src |-> <<"a">>, val |-> symbol(<<>>, <<"a">>), kept |-> TRUE],
     [src |-> <<"1">>, val |-> Integer(1), kept |-> TRUE],
     [src |-> <<"n", "i", "l">>, val |-> None, kept |-> TRUE],
     [src |-> <<"'", "a">>, val |-> RTlist(<<_QUOTE_, symbol(<<>>, <<"a">>)>>), kept |-> TRUE],
     [src |-> <<BACKQUOTE, "~", "n", "i", "l">>, val |-> None, kept |-> TRUE],
     [src |-> <<";", "c", "\n">>, val |-> RDR, kept |-> FALSE],
     [src |-> <<"#", "_", "a">>, val |-> RDR, kept |-> FALSE],
     [src |-> <<"#", "!", "c", "\n">>, val |-> RDR, kept |-> FALSE]}

RECURSIVE ListBody(_)
ListBody(its) ==
    IF its = <<>> THEN <<>> ELSE its[1].src \o <<" ">> \o ListBody(Tail(its))

ListText(its) == <<"(">> \o ListBody(its) \o <<")">>

RECURSIVE ListValues(_)
ListValues(its) ==
    IF its = <<>> THEN <<>>
    ELSE IF its[1].kept THEN <<its[1].val>> \o ListValues(Tail(its))
    ELSE ListValues(Tail(its))

InitList ==
    /\ \E n \in 0..MaxItems : \E its \in [1..n -> ListForms] :
          /\ text = ListText(its)
          /\ expect = <<[s |-> 1, e |-> Len(ListText(its)), val |-> RTlist(ListValues(its))]>>
    /\ pos = 0
    /\ frames = <<>>
    /\ nextID = 0
    /\ currentCompiler = "user"
    /\ result = NoResult
    /\ trace = <<>>
    /\ lastOp = "none"

SpecList == InitList /\ [][Next]_vars

\* C12: reading ( f1 ... fn ) returns the list of the values of the forms
\* fi in source order, one element per form, leaving out only the forms
\* whose reader hands back the stream (comment, #_ discard, #! line); nil is
\* an element whether a token or a macro reader produced it.
C12_OneElementPerForm ==
    (result.called /\ Calls = 1)
        => /\ result.ok
           /\ Bare(result.val) = expect[1].val
           /\ pos = expect[1].e

\* texts that take the paths of the reader that step the stream back: sign
\* lookahead, token and number termination, unquote, % lookahead, #(, an
\* octal escape, delimited lists
BackLex == {<<"+">>, <<"1">>, <<"~">>, <<"%">>, <<"#", "(">>, <<"(">>, <<")">>,
            <<"\"", "\\", "1", "\"">>}

InitBack == InitWith(Texts(BackLex, MaxItems), {"user"})

SpecBack == InitBack /\ [][Next]_vars

\* the back() calls of the read call under way
Backs == {i \in Cur : trace[i].ev = "back"}

\* C13: every back() the reader calls comes right after a next(): never
\* after another back(), never before the first next() on the stream.
C13_OneLevelPushback ==
    \A i \in 1..Len(trace) : trace[i].ev = "back" => trace[i].name = "next"

\* a read of #( ... ) that returned a form after stepping back for the #(,
\* a list element, a sign and the end of a token or number
C13_Witness ==
    /\ result.called /\ result.ok
    /\ \E i \in Cur : trace[i].ev = "fn.end"
    /\ Cardinality(Backs) >= 4

====
